---- MODULE Spec2Model ----
(***************************************************************************)
(* A model of the etcd3 client of src/lib.rs: the Session (EtcdClient),    *)
(* its Range handle (put / get / delete), and the watch subscription,      *)
(* running against a key-value store and a transport that are the          *)
(* client's environment.  Every await of the client is a step of its own:  *)
(* a call sends its request, the store serves it (or the RPC fails), and   *)
(* the call returns.                                                       *)
(*                                                                         *)
(* Text (Rust &str / String) is a sequence of code points; what goes over  *)
(* the wire (Vec<u8>) is a sequence of bytes.  into_bytes and from_utf8    *)
(* are the UTF-8 encoding and its validating inverse, for code points      *)
(* below 2048 (one- and two-byte forms).                                   *)
(***************************************************************************)
EXTENDS Integers, Sequences, FiniteSets, TLC

\* ---------------------------------------------------------------- bounds

\* put, get, delete and members calls the caller issues in one run.
MaxOps == 2
\* Writes other clients of the same store make in one run.
MaxOther == 1

\* ------------------------------------------------------------ text, bytes

\* The texts the caller uses: "a", "aa", "é" (U+00E9), and the empty text.
T_a == <<97>>
T_aa == <<97, 97>>
T_e == <<233>>
T_empty == <<>>

\* String::into_bytes / str::to_string().into_bytes(): UTF-8 of one code point.
Utf8Char(c) ==
    IF c < 128 THEN <<c>> ELSE <<192 + (c \div 64), 128 + (c % 64)>>

\* lib.rs:38 self.start.to_string().into_bytes(): UTF-8 of a text.
RECURSIVE into_bytes(_)
into_bytes(s) ==
    IF s = <<>> THEN <<>> ELSE Utf8Char(Head(s)) \o into_bytes(Tail(s))

\* The marker std::str::from_utf8 answers with for bytes that are no UTF-8.
Utf8Error == <<-1>>

\* lib.rs:63 std::str::from_utf8(&kv.key): the text of a byte sequence, or
\* Utf8Error.  A byte below 128 is itself; a lead byte 194..223 needs one
\* continuation byte 128..191; every other byte here is rejected (192, 193
\* are overlong forms, 245..255 are never valid; the three- and four-byte
\* leads 224..244 are not in the byte alphabet of this model).
RECURSIVE from_utf8(_)
from_utf8(b) ==
    IF b = <<>> THEN <<>>
    ELSE IF Head(b) < 128
    THEN LET rest == from_utf8(Tail(b))
         IN  IF rest = Utf8Error THEN Utf8Error ELSE <<Head(b)>> \o rest
    ELSE IF /\ Head(b) >= 194 /\ Head(b) <= 223 /\ Len(b) >= 2
            /\ b[2] >= 128 /\ b[2] <= 191
    THEN LET rest == from_utf8(SubSeq(b, 3, Len(b)))
         IN  IF rest = Utf8Error THEN Utf8Error
             ELSE <<(Head(b) - 192) * 64 + (b[2] - 128)>> \o rest
    ELSE Utf8Error

\* Byte-wise lexicographic order, the order of the store's keys.
RECURSIVE BytesLess(_, _)
BytesLess(x, y) ==
    IF y = <<>> THEN FALSE
    ELSE IF x = <<>> THEN TRUE
    ELSE IF Head(x) < Head(y) THEN TRUE
    ELSE IF Head(x) > Head(y) THEN FALSE
    ELSE BytesLess(Tail(x), Tail(y))

BytesLeq(x, y) == x = y \/ BytesLess(x, y)

\* Option<&str>
None == [some |-> FALSE, val |-> <<>>]
Some(s) == [some |-> TRUE, val |-> s]

\* ------------------------------------------------------------ input pools

\* Start keys the caller makes Ranges for.
StartPool == {T_a, T_aa}
\* End keys: none, the empty text, one above the starts, one equal to or
\* below a start.
EndPool == {None, Some(T_empty), Some(T_e), Some(T_a)}
\* Values the caller puts.
ValuePool == {T_e, T_a}
\* Keys the caller watches.
WatchPool == {T_a}
\* What other clients of the store write: any key, any bytes; the byte 255
\* is in no UTF-8 text.
OtherWrites ==
    { <<<<97>>, <<255>>>>, <<<<97, 255>>, <<97>>>>, <<<<195, 169>>, <<97, 97>>>> }
\* Stores the run may start from.
InitStores ==
    { <<>>,
      (<<97>> :> <<97>>) @@ (<<97, 97>> :> <<195, 169>>) @@ (<<195, 169>> :> <<97>>) }

\* The six per-service stubs of EtcdClient, in the order connect makes them.
ServiceNames ==
    <<"auth_client", "cluster_client", "kv_client", "lease_client",
      "status_client", "watch_client">>

\* ------------------------------------------------------------------ state

VARIABLES
    pc,        \* where the calling task is: "connecting", "connect_failed",
               \* "idle", "put", "get", "delete", "members", "watch",
               \* "panicked"
    stubs,     \* connect's stubs made so far: the channel each one dialled
    dials,     \* network connections (channels) this connect has opened
    session,   \* "none", "live" once connect returned Ok(Self {..}), or
               \* "dropped"
    cluster,   \* whether the caller holds a Cluster handle
    range,     \* the Range handle the caller holds, if any
    rpc,       \* the unary RPC in flight on kv_client or cluster_client, if any
    result,    \* what the last call returned, until the caller moves on
    store,     \* the store's contents: key bytes -> value bytes
    sub,       \* the watch subscription: its state and the key asked for
    reqStream, \* the async_stream of watch requests: "none", "unpolled",
               \* "yielded", "ended"
    outbound,  \* the watch requests the transport has sent
    watcher,   \* the watcher the store has registered for the subscription
    inbound,   \* the inbound tonic::Streaming: pending batches, how it ends
    consumed,  \* the batches message() has handed to the consumer
    delivered, \* history: every batch the store sent on the stream
    writes,    \* history: the changes of watched keys since registration
    lastPut,   \* history: the caller's last put and whether k was written since
    lastDel,   \* history: the caller's last delete and whether anything was written since
    nops,      \* put, get, delete and members calls issued so far
    nother     \* writes by other clients so far

connVars == <<stubs, dials, session>>
watchVars == <<sub, reqStream, outbound, watcher, inbound, consumed, delivered, writes>>
histVars == <<lastPut, lastDel>>
vars ==
    <<pc, stubs, dials, session, cluster, range, rpc, result, store, sub, reqStream,
      outbound, watcher, inbound, consumed, delivered, writes, lastPut,
      lastDel, nops, nother>>

\* lib.rs:27 struct Range { start, end, client }: no handle held.
NoRange == [live |-> FALSE, start |-> <<>>, end |-> None]

NoRpc ==
    [kind |-> "none", st |-> "none", key |-> <<>>, range_end |-> <<>>,
     value |-> <<>>, prev_kv |-> FALSE, kvs |-> <<>>, snap |-> <<>>,
     after |-> <<>>, fault |-> FALSE, again |-> FALSE, watched |-> FALSE,
     start |-> <<>>, end |-> None, arg |-> <<>>, members |-> <<>>]

NoResult ==
    [op |-> "none", ok |-> FALSE, map |-> {}, start |-> <<>>, end |-> None,
     snap |-> <<>>, after |-> <<>>, fault |-> FALSE, again |-> FALSE,
     watched |-> FALSE, arg |-> <<>>, members |-> <<>>, sent |-> <<>>]

NoPut == [set |-> FALSE, key |-> <<>>, value |-> <<>>, acked |-> FALSE, clean |-> FALSE]
NoDel == [set |-> FALSE, start |-> <<>>, end |-> None, acked |-> FALSE, clean |-> FALSE]

NoSub == [st |-> "unopened", key |-> <<>>, last |-> "none"]
NoWatcher ==
    [on |-> FALSE, key |-> <<>>, range_end |-> <<>>, start_revision |-> 0,
     seen |-> 0]
NoInbound == [headers |-> FALSE, msgs |-> <<>>, term |-> "open"]

Init ==
    /\ pc = "connecting"
    /\ stubs = <<>>
    /\ dials = 0
    /\ session = "none"
    /\ cluster = FALSE
    /\ range = NoRange
    /\ rpc = NoRpc
    /\ result = NoResult
    /\ store \in InitStores
    /\ sub = NoSub
    /\ reqStream = "none"
    /\ outbound = <<>>
    /\ watcher = NoWatcher
    /\ inbound = NoInbound
    /\ consumed = <<>>
    /\ delivered = <<>>
    /\ writes = <<>>
    /\ lastPut = NoPut
    /\ lastDel = NoDel
    /\ nops = 0
    /\ nother = 0

\* ------------------------------------------------- EtcdClient::connect

\* lib.rs:119-124 client::XClient::connect(dst.clone()).await succeeded: the
\* stub dials the destination itself (connect is given the destination, not
\* a channel) and keeps the channel it opened.
StubConnected(made, opened) == Append(made, opened + 1)

\* A connect that builds the Session one stub short.
SessionAfter_Early(made) ==
    IF Len(made) >= Len(ServiceNames) - 1 THEN "live" ELSE "none"

\* lib.rs:126-133 Ok(Self { .. }) once the sixth stub is made.
SessionAfter(made) == IF Len(made) = Len(ServiceNames) THEN "live" ELSE "none"

\* lib.rs:119-124, one `connect(dst.clone()).await?` that succeeds.
ConnectStubOk ==
    /\ pc = "connecting"
    /\ Len(stubs) < Len(ServiceNames)
    /\ dials' = dials + 1
    /\ stubs' = StubConnected(stubs, dials)
    /\ session' = SessionAfter(stubs')
    /\ pc' = IF session' = "live" THEN "idle" ELSE "connecting"
    /\ UNCHANGED <<cluster, range, rpc, result, store, watchVars, histVars,
                   nops, nother>>

\* lib.rs:119-124, one `connect(dst.clone()).await?` that fails: connect
\* returns the error; the stubs made so far are dropped with their channels.
ConnectStubErr ==
    /\ pc = "connecting"
    /\ Len(stubs) < Len(ServiceNames)
    /\ stubs' = <<>>
    /\ pc' = "connect_failed"
    /\ result' = [NoResult EXCEPT !.op = "connect", !.ok = FALSE]
    /\ UNCHANGED <<dials, session, cluster, range, rpc, store, watchVars,
                   histVars, nops, nother>>

\* --------------------------------------------------- EtcdClient::range

\* lib.rs:136-146 range(&'a mut self, start, end): the handle borrows the
\* Session exclusively, so it is made only while nothing else borrows it.
RangeNew(start, end) ==
    /\ pc = "idle"
    /\ session = "live"
    /\ ~range.live /\ ~cluster
    /\ range' = [live |-> TRUE, start |-> start, end |-> end]
    /\ result' = NoResult
    /\ UNCHANGED <<pc, connVars, cluster, rpc, store, watchVars, histVars,
                   nops, nother>>

\* The caller lets the handle go out of scope (lib.rs:226 shadows it).
RangeDrop ==
    /\ pc = "idle"
    /\ range.live
    /\ range' = NoRange
    /\ result' = NoResult
    /\ UNCHANGED <<pc, connVars, cluster, rpc, store, watchVars, histVars,
                   nops, nother>>

\* ------------------------------------------------ the store (environment)

\* The wire convention of a range request: an empty range_end names the
\* single key, a non-empty one the half-open interval [key, range_end).
InScope(key, range_end, k) ==
    IF range_end = <<>> THEN k = key
    ELSE BytesLeq(key, k) /\ BytesLess(k, range_end)

ScopeKeys(st, key, range_end) == {k \in DOMAIN st : InScope(key, range_end, k)}

MinKey(ks) == CHOOSE k \in ks : \A j \in ks : BytesLeq(k, j)

\* The key-value records of a set of keys, in key order.
RECURSIVE KvsOf(_, _)
KvsOf(st, ks) ==
    IF ks = {} THEN <<>>
    ELSE LET k == MinKey(ks)
         IN  <<[key |-> k, value |-> st[k]]>> \o KvsOf(st, ks \ {k})

StorePut(st, key, value) ==
    [k \in DOMAIN st \cup {key} |-> IF k = key THEN value ELSE st[k]]

StoreDelete(st, ks) == [k \in DOMAIN st \ ks |-> st[k]]

\* The change events of one write that the registered watcher covers.
EventsFor(w, evs) ==
    SelectSeq(evs, LAMBDA e : w.on /\ InScope(w.key, w.range_end, e.key))

\* History: the changes among evs of the key the subscription asked for,
\* made while its watcher is registered.
WatchedWrites(evs) ==
    SelectSeq(evs, LAMBDA e : watcher.on /\ e.key = into_bytes(sub.key))

\* The store sends the watcher one batch for a write that changed keys it
\* covers, while the stream is up.
Notify(evs) ==
    LET mine == EventsFor(watcher, evs)
        batch == [created |-> FALSE, events |-> mine]
    IN  /\ writes' = writes \o WatchedWrites(evs)
        /\ IF mine = <<>>
           THEN UNCHANGED <<inbound, delivered>>
           ELSE /\ inbound' = [inbound EXCEPT !.msgs = Append(@, batch)]
                /\ delivered' = Append(delivered, batch)

PutEvent(key, value) == [type |-> "PUT", key |-> key, value |-> value]

RECURSIVE DeleteEvents(_)
DeleteEvents(ks) ==
    IF ks = {} THEN <<>>
    ELSE LET k == MinKey(ks)
         IN  <<[type |-> "DELETE", key |-> k, value |-> <<>>]>> \o DeleteEvents(ks \ {k})

\* Whether a write to the keys ks touches the key of the caller's last put.
DirtiesPut(ks) == into_bytes(lastPut.key) \in ks

\* The store serves the put in flight.
ServePut ==
    /\ rpc.kind = "put" /\ rpc.st = "sent"
    /\ store' = StorePut(store, rpc.key, rpc.value)
    /\ rpc' = [rpc EXCEPT !.st = "ok", !.snap = store, !.after = store']
    /\ Notify(<<PutEvent(rpc.key, rpc.value)>>)
    /\ lastPut' = [set |-> TRUE, key |-> rpc.start, value |-> rpc.arg,
                   acked |-> FALSE, clean |-> TRUE]
    /\ lastDel' = NoDel
    /\ UNCHANGED <<pc, connVars, cluster, range, result, sub, reqStream, outbound,
                   watcher, consumed, nops, nother>>

\* The store serves the range read in flight.
ServeRange ==
    /\ rpc.kind = "range" /\ rpc.st = "sent"
    /\ rpc' = [rpc EXCEPT !.st = "ok", !.snap = store, !.after = store,
                          !.kvs = KvsOf(store, ScopeKeys(store, rpc.key, rpc.range_end))]
    /\ UNCHANGED <<pc, connVars, cluster, range, result, store, watchVars, histVars,
                   nops, nother>>

\* Whether this delete repeats the caller's last, acknowledged delete on the
\* same scope with nothing written since.
Repeats(r) ==
    /\ lastDel.set /\ lastDel.acked /\ lastDel.clean
    /\ lastDel.start = r.start /\ lastDel.end = r.end

\* The store serves the delete in flight; deleting nothing is no error.
ServeDeleteRange ==
    /\ rpc.kind = "delete_range" /\ rpc.st = "sent"
    /\ LET ks == ScopeKeys(store, rpc.key, rpc.range_end)
       IN  /\ store' = StoreDelete(store, ks)
           /\ Notify(DeleteEvents(ks))
           /\ lastPut' = IF DirtiesPut(ks) THEN NoPut ELSE lastPut
    /\ rpc' = [rpc EXCEPT !.st = "ok", !.snap = store, !.after = store',
                          !.again = Repeats(rpc)]
    /\ lastDel' = [set |-> TRUE, start |-> rpc.start, end |-> rpc.end,
                   acked |-> FALSE, clean |-> TRUE]
    /\ UNCHANGED <<pc, connVars, cluster, range, result, sub, reqStream, outbound,
                   watcher, consumed, nops, nother>>

\* A transport- or server-level failure of the RPC in flight: the request
\* never arrives, the store refuses it, or its response is lost.
RpcFail ==
    /\ rpc.st \in {"sent", "ok"}
    /\ rpc' = [rpc EXCEPT !.st = "err", !.fault = TRUE]
    /\ UNCHANGED <<pc, connVars, cluster, range, result, store, watchVars, histVars,
                   nops, nother>>

\* Another client of the store writes a key.
OtherPut(key, value) ==
    /\ nother < MaxOther
    /\ nother' = nother + 1
    /\ store' = StorePut(store, key, value)
    /\ Notify(<<PutEvent(key, value)>>)
    /\ lastPut' = IF DirtiesPut({key}) THEN NoPut ELSE lastPut
    /\ lastDel' = NoDel
    /\ UNCHANGED <<pc, connVars, cluster, range, rpc, result, sub, reqStream, outbound,
                   watcher, consumed, nops>>

\* ----------------------------------------------------------------- Range

\* A put that leaves the request's value to Default::default().
PutRequest_NoValue(r, value) ==
    [NoRpc EXCEPT !.kind = "put", !.st = "sent",
                  !.key = into_bytes(r.start),
                  !.prev_kv = TRUE]

\* A put that writes the end key when one is bound.
PutRequest_EndKey(r, value) ==
    [NoRpc EXCEPT !.kind = "put", !.st = "sent",
                  !.key = IF r.end.some THEN into_bytes(r.end.val)
                          ELSE into_bytes(r.start),
                  !.value = into_bytes(value),
                  !.prev_kv = TRUE]

\* lib.rs:37-42 etcdserver::PutRequest { key, value, prev_kv: true, .. }
PutRequest(r, value) ==
    [NoRpc EXCEPT !.kind = "put", !.st = "sent",
                  !.key = into_bytes(r.start),
                  !.value = into_bytes(value),
                  !.prev_kv = TRUE]

\* lib.rs:52-55 and 75-78: range_end of Some(s) is s's bytes, of None the
\* bytes of "".
RangeEnd(end) == IF end.some THEN into_bytes(end.val) ELSE into_bytes(T_empty)

\* A get that leaves the request's range_end to Default::default().
RangeRequest_NoEnd(r) ==
    [NoRpc EXCEPT !.kind = "range", !.st = "sent",
                  !.key = into_bytes(r.start)]

\* lib.rs:50-57 etcdserver::RangeRequest { key, range_end, .. }
RangeRequest(r) ==
    [NoRpc EXCEPT !.kind = "range", !.st = "sent",
                  !.key = into_bytes(r.start),
                  !.range_end = RangeEnd(r.end)]

\* A delete that leaves the request's range_end to Default::default().
DeleteRangeRequest_NoEnd(r) ==
    [NoRpc EXCEPT !.kind = "delete_range", !.st = "sent",
                  !.key = into_bytes(r.start)]

\* A delete that leaves the request's key to Default::default().
DeleteRangeRequest_NoKey(r) ==
    [NoRpc EXCEPT !.kind = "delete_range", !.st = "sent",
                  !.range_end = RangeEnd(r.end)]

\* lib.rs:73-80 etcdserver::DeleteRangeRequest { key, range_end, .. }
DeleteRangeRequest(r) ==
    [NoRpc EXCEPT !.kind = "delete_range", !.st = "sent",
                  !.key = into_bytes(r.start),
                  !.range_end = RangeEnd(r.end)]

\* Whether the subscription is open on the key this Range writes.
Watching(r) == sub.st = "open" /\ sub.key = r.start

\* lib.rs:34-44 put(&mut self, value), up to the await of kv_client.put.
PutCall(value) ==
    /\ pc = "idle" /\ range.live /\ nops < MaxOps
    /\ rpc' = [PutRequest(range, value) EXCEPT !.watched = Watching(range),
                    !.start = range.start, !.end = range.end, !.arg = value]
    /\ pc' = "put"
    /\ result' = NoResult
    /\ lastPut' = NoPut
    /\ nops' = nops + 1
    /\ UNCHANGED <<connVars, cluster, range, store, watchVars, lastDel, nother>>

\* A put that drops the error of the RPC and reports success.
PutOutcome_Swallow(r) == TRUE

\* lib.rs:44-46 `?` on the response, then Ok(()).
PutOutcome(r) == r.st = "ok"

\* lib.rs:44-46 put returns.
PutReturn ==
    /\ pc = "put" /\ rpc.st \in {"ok", "err"}
    /\ result' = [NoResult EXCEPT !.op = "put", !.ok = PutOutcome(rpc),
                                  !.start = rpc.start, !.end = rpc.end,
                                  !.snap = rpc.snap, !.after = rpc.after,
                                  !.fault = rpc.fault, !.watched = rpc.watched,
                                  !.arg = rpc.arg]
    /\ lastPut' = IF result'.ok /\ lastPut.clean
                   THEN [lastPut EXCEPT !.acked = TRUE] ELSE NoPut
    /\ rpc' = NoRpc
    /\ pc' = "idle"
    /\ UNCHANGED <<connVars, cluster, range, store, watchVars, lastDel, nops, nother>>

\* lib.rs:49-58 get(&mut self), up to the await of kv_client.range.
GetCall ==
    /\ pc = "idle" /\ range.live /\ nops < MaxOps
    /\ rpc' = [RangeRequest(range) EXCEPT !.start = range.start, !.end = range.end]
    /\ pc' = "get"
    /\ result' = NoResult
    /\ nops' = nops + 1
    /\ UNCHANGED <<connVars, cluster, range, store, watchVars, histVars, nother>>

\* lib.rs:66 out.insert(key, value) on the HashMap, a set of <<key, value>>.
Insert(out, key, value) == {p \in out : p[1] # key} \cup {<<key, value>>}

\* lib.rs:61-67 the for_each over range_response.kvs.
RECURSIVE Collect(_, _)
Collect(out, kvs) ==
    IF kvs = <<>> THEN out
    ELSE Collect(Insert(out, from_utf8(Head(kvs).key), from_utf8(Head(kvs).value)),
                 Tail(kvs))

\* lib.rs:63-64 whether one of the unwrap()s of from_utf8 meets an Err.
UnwrapFails(kvs) ==
    \E i \in 1..Len(kvs) :
        from_utf8(kvs[i].key) = Utf8Error \/ from_utf8(kvs[i].value) = Utf8Error

\* lib.rs:58-69 get returns: the error of the RPC by `?`, or the map; an
\* unwrap() of an Err panics, which unwinds the calling task.
GetReturn ==
    /\ pc = "get" /\ rpc.st \in {"ok", "err"}
    /\ IF rpc.st = "ok" /\ UnwrapFails(rpc.kvs)
       THEN /\ pc' = "panicked"
            /\ result' = NoResult
            /\ range' = NoRange
       ELSE /\ pc' = "idle"
            /\ result' = [NoResult EXCEPT !.op = "get", !.ok = (rpc.st = "ok"),
                              !.map = IF rpc.st = "ok" THEN Collect({}, rpc.kvs) ELSE {},
                              !.start = rpc.start, !.end = rpc.end,
                              !.snap = rpc.snap, !.after = rpc.after,
                              !.fault = rpc.fault]
            /\ range' = range
    /\ rpc' = NoRpc
    /\ UNCHANGED <<connVars, cluster, store, watchVars, histVars, nops, nother>>

\* A delete that takes the handle by reference and leaves it to the caller.
DeleteSelf_Borrowed(r) == r

\* lib.rs:72 delete(self): the handle is moved into the call, so the caller
\* holds none from the call on, whatever the call returns.
DeleteSelf(r) == NoRange

\* lib.rs:72-82 delete(self), up to the await of kv_client.delete_range;
\* `self` is moved into the call.
DeleteCall ==
    /\ pc = "idle" /\ range.live /\ nops < MaxOps
    /\ rpc' = [DeleteRangeRequest(range) EXCEPT !.start = range.start,
                                                 !.end = range.end]
    /\ pc' = "delete"
    /\ result' = NoResult
    /\ range' = DeleteSelf(range)
    /\ nops' = nops + 1
    /\ UNCHANGED <<connVars, cluster, store, watchVars, histVars, nother>>

\* A delete that drops the error of the RPC and reports success.
DeleteOutcome_Swallow(r) == TRUE

\* lib.rs:82-83 `?` on the response, then Ok(()).
DeleteOutcome(r) == r.st = "ok"

\* lib.rs:82-83 delete returns.
DeleteReturn ==
    /\ pc = "delete" /\ rpc.st \in {"ok", "err"}
    /\ result' = [NoResult EXCEPT !.op = "delete", !.ok = DeleteOutcome(rpc),
                                  !.start = rpc.start, !.end = rpc.end,
                                  !.snap = rpc.snap, !.after = rpc.after,
                                  !.fault = rpc.fault, !.again = rpc.again]
    /\ lastDel' = IF result'.ok /\ lastDel.clean /\ ~lastDel.acked
                   THEN [lastDel EXCEPT !.acked = TRUE] ELSE NoDel
    /\ rpc' = NoRpc
    /\ pc' = "idle"
    /\ UNCHANGED <<connVars, cluster, range, store, watchVars, lastPut, nops, nother>>

\* --------------------------------------------------- EtcdClient::cluster

\* lib.rs:195-199 cluster(&'a mut self): the handle borrows the Session
\* exclusively, so it is made only while nothing else borrows it.
ClusterNew ==
    /\ pc = "idle"
    /\ session = "live"
    /\ ~range.live /\ ~cluster
    /\ cluster' = TRUE
    /\ result' = NoResult
    /\ UNCHANGED <<pc, connVars, range, rpc, store, watchVars, histVars,
                   nops, nother>>

\* The caller lets the Cluster handle go out of scope.
ClusterDrop ==
    /\ pc = "idle"
    /\ cluster
    /\ cluster' = FALSE
    /\ result' = NoResult
    /\ UNCHANGED <<pc, connVars, range, rpc, store, watchVars, histVars,
                   nops, nother>>

\* lib.rs:94 etcdserver::MemberListRequest {}
MemberListRequest == [NoRpc EXCEPT !.kind = "member_list", !.st = "sent"]

\* lib.rs:93-95 members(&mut self), up to the await of
\* cluster_client.member_list.
MembersCall ==
    /\ pc = "idle" /\ cluster /\ nops < MaxOps
    /\ rpc' = MemberListRequest
    /\ pc' = "members"
    /\ result' = NoResult
    /\ nops' = nops + 1
    /\ UNCHANGED <<connVars, cluster, range, store, watchVars, histVars, nother>>

\* The member lists the cluster may answer with: member ids in the order of
\* the response.
MemberLists == {<<1>>, <<2, 1>>, <<1, 2, 3>>, <<3, 1, 2>>}

\* The cluster serves the member list in flight.
ServeMemberList(ms) ==
    /\ rpc.kind = "member_list" /\ rpc.st = "sent"
    /\ rpc' = [rpc EXCEPT !.st = "ok", !.members = ms]
    /\ UNCHANGED <<pc, connVars, cluster, range, result, store, watchVars,
                   histVars, nops, nother>>

\* A members() that hands back the first member only.
MembersOf_First(r) == IF r.members = <<>> THEN <<>> ELSE <<Head(r.members)>>

\* lib.rs:96 response.into_inner().members
MembersOf(r) == r.members

\* lib.rs:95-96 members returns: the error of the RPC by `?`, or the
\* response's members.
MembersReturn ==
    /\ pc = "members" /\ rpc.st \in {"ok", "err"}
    /\ result' = [NoResult EXCEPT !.op = "members", !.ok = (rpc.st = "ok"),
                      !.members = IF rpc.st = "ok" THEN MembersOf(rpc) ELSE <<>>,
                      !.sent = rpc.members, !.fault = rpc.fault]
    /\ rpc' = NoRpc
    /\ pc' = "idle"
    /\ UNCHANGED <<connVars, cluster, range, store, watchVars, histVars,
                   nops, nother>>

\* lib.rs:101-111 the caller drops the EtcdClient and with it the six stubs
\* it owns; a Range or a Cluster borrows it, so it goes only while neither
\* is held.  The inbound stream of a watch is a value of its own.
SessionDrop ==
    /\ pc = "idle"
    /\ session = "live"
    /\ ~range.live /\ ~cluster
    /\ session' = "dropped"
    /\ stubs' = <<>>
    /\ result' = NoResult
    /\ UNCHANGED <<pc, dials, cluster, range, rpc, store, watchVars, histVars,
                   nops, nother>>

\* ----------------------------------------------------- EtcdClient::watch

\* A create request that leaves the key to Default::default().
WatchCreateRequest_NoKey(key) ==
    [create |-> TRUE, key |-> <<>>, range_end |-> <<>>, start_revision |-> 0]

\* lib.rs:156-163 WatchRequest { request_union: Some(CreateRequest(
\* WatchCreateRequest { key: key.into(), ..Default::default() })) }
WatchCreateRequest(key) ==
    [create |-> TRUE, key |-> into_bytes(key), range_end |-> <<>>,
     start_revision |-> 0]

\* A request stream that yields its request in a loop, at every poll.
RequestStream_Loop(st, key) ==
    [yield |-> <<[create |-> TRUE, key |-> into_bytes(key), range_end |-> <<>>,
                  start_revision |-> 0]>>,
     next |-> "yielded"]

\* A request stream that waits after its request instead of ending.
RequestStream_Pending(st, key) ==
    IF st = "unpolled"
    THEN [yield |-> <<[create |-> TRUE, key |-> into_bytes(key),
                       range_end |-> <<>>, start_revision |-> 0]>>,
          next |-> "yielded"]
    ELSE [yield |-> <<>>, next |-> "pending"]

\* lib.rs:155-166 one poll of the async_stream::stream! block: the first
\* poll runs it to its `yield request`, the next one runs it off its end,
\* which ends the stream.
RequestStream(st, key) ==
    IF st = "unpolled"
    THEN [yield |-> <<WatchCreateRequest(key)>>, next |-> "yielded"]
    ELSE [yield |-> <<>>, next |-> "ended"]

\* lib.rs:148-168 watch(&mut self, key), up to the await of
\* watch_client.watch(request).  One subscription is made in a run.
WatchCall(key) ==
    /\ pc = "idle" /\ session = "live" /\ ~range.live /\ ~cluster
    /\ sub.st = "unopened"
    /\ sub' = [sub EXCEPT !.st = "calling", !.key = key]
    /\ reqStream' = "unpolled"
    /\ pc' = "watch"
    /\ result' = NoResult
    /\ UNCHANGED <<connVars, cluster, range, rpc, store, outbound, watcher, inbound,
                   consumed, delivered, writes, histVars, nops, nother>>

\* The transport polls the request stream of the call for its next message
\* and sends what it yields; when the stream ends it half-closes the call.
PollRequestStream ==
    /\ sub.st \in {"calling", "open"} /\ inbound.term = "open"
    /\ reqStream \in {"unpolled", "yielded"}
    /\ LET p == RequestStream(reqStream, sub.key)
       IN  /\ outbound' = outbound \o p.yield
           /\ reqStream' = p.next
    /\ UNCHANGED <<pc, connVars, cluster, range, rpc, result, store, sub, watcher,
                   inbound, consumed, delivered, writes, histVars, nops, nother>>

\* The store takes the next watch request off the call: it registers the
\* watcher and answers with the response headers and a "created" batch.
ServeWatchCreate ==
    /\ sub.st \in {"calling", "open"} /\ inbound.term = "open"
    /\ watcher.seen < Len(outbound)
    /\ LET req == outbound[watcher.seen + 1]
           batch == [created |-> TRUE, events |-> <<>>]
       IN  /\ watcher' = [on |-> TRUE, key |-> req.key, range_end |-> req.range_end,
                          start_revision |-> req.start_revision,
                          seen |-> watcher.seen + 1]
           /\ inbound' = [inbound EXCEPT !.headers = TRUE, !.msgs = Append(@, batch)]
           /\ delivered' = Append(delivered, batch)
    /\ UNCHANGED <<pc, connVars, cluster, range, rpc, result, store, sub, reqStream,
                   outbound, consumed, writes, histVars, nops, nother>>

\* lib.rs:168-171 watch returns: the error of the call by `?`, or the
\* inbound stream once the response headers are in.
WatchReturn ==
    /\ pc = "watch"
    /\ inbound.headers \/ inbound.term = "error"
    /\ sub' = [sub EXCEPT !.st = IF inbound.headers THEN "open" ELSE "closed"]
    /\ result' = [NoResult EXCEPT !.op = "watch", !.ok = inbound.headers,
                                  !.fault = ~inbound.headers]
    /\ pc' = "idle"
    /\ UNCHANGED <<connVars, cluster, range, rpc, store, reqStream, outbound, watcher,
                   inbound, consumed, delivered, writes, histVars, nops, nother>>

\* A subscription that hands over the newest pending batch first.
NextMessage_Last(msgs) ==
    [msg |-> msgs[Len(msgs)], rest |-> SubSeq(msgs, 1, Len(msgs) - 1)]

\* lib.rs:169-171 the inbound stream is handed to the consumer as it is:
\* message() takes the batches in the order they came in.
NextMessage(msgs) == [msg |-> Head(msgs), rest |-> Tail(msgs)]

\* A subscription that turns the error of the inbound stream into its end.
PollOutcome_ErrAsEnd(inb) ==
    IF inb.msgs # <<>> THEN "msg"
    ELSE IF inb.term = "open" THEN "pending" ELSE "eos"

\* lib.rs:169-171 the inbound stream is handed to the consumer unwrapped, so
\* a poll of the subscription is a poll of the stream: a pending batch, else
\* the stream's end or its error, else nothing yet.
PollOutcome(inb) ==
    IF inb.msgs # <<>> THEN "msg"
    ELSE IF inb.term = "end" THEN "eos"
    ELSE IF inb.term = "error" THEN "err"
    ELSE "pending"

\* lib.rs:253 stream.message().await on the subscription: the next batch,
\* or the end of the stream, or its error.
Message ==
    /\ sub.st = "open"
    /\ \/ /\ PollOutcome(inbound) = "msg"
          /\ consumed' = Append(consumed, NextMessage(inbound.msgs).msg)
          /\ inbound' = [inbound EXCEPT !.msgs = NextMessage(inbound.msgs).rest]
          /\ sub' = [sub EXCEPT !.last = "msg"]
       \/ /\ PollOutcome(inbound) \in {"eos", "err"}
          /\ sub' = [sub EXCEPT !.st = "closed", !.last = PollOutcome(inbound)]
          /\ UNCHANGED <<consumed, inbound>>
    /\ UNCHANGED <<pc, connVars, cluster, range, rpc, result, store, reqStream, outbound,
                   watcher, delivered, writes, histVars, nops, nother>>

\* The consumer polls a subscription that has ended or failed: a finished
\* stream yields nothing more.
MessageClosed ==
    /\ sub.st = "closed" /\ sub.last \in {"eos", "err"}
    /\ sub' = [sub EXCEPT !.last = "eos"]
    /\ UNCHANGED <<pc, connVars, cluster, range, rpc, result, store, reqStream,
                   outbound, watcher, inbound, consumed, delivered, writes,
                   histVars, nops, nother>>

\* The connection of the watch call fails.
StreamFail ==
    /\ sub.st \in {"calling", "open"} /\ inbound.term = "open"
    /\ inbound' = [inbound EXCEPT !.term = "error"]
    /\ watcher' = [watcher EXCEPT !.on = FALSE]
    /\ UNCHANGED <<pc, connVars, cluster, range, rpc, result, store, sub, reqStream,
                   outbound, consumed, delivered, writes, histVars, nops, nother>>

\* The store closes the stream.
StreamEnd ==
    /\ sub.st = "open" /\ inbound.term = "open"
    /\ inbound' = [inbound EXCEPT !.term = "end"]
    /\ watcher' = [watcher EXCEPT !.on = FALSE]
    /\ UNCHANGED <<pc, connVars, cluster, range, rpc, result, store, sub, reqStream,
                   outbound, consumed, delivered, writes, histVars, nops, nother>>

\* The consumer drops the subscription: the call is cancelled.
SubDrop ==
    /\ sub.st = "open"
    /\ sub' = [sub EXCEPT !.st = "closed"]
    /\ inbound' = [inbound EXCEPT !.msgs = <<>>,
                                  !.term = IF @ = "open" THEN "end" ELSE @]
    /\ watcher' = [watcher EXCEPT !.on = FALSE]
    /\ UNCHANGED <<pc, connVars, cluster, range, rpc, result, store, reqStream, outbound,
                   consumed, delivered, writes, histVars, nops, nother>>

\* ---------------------------------------------------------- specification

Connect == ConnectStubOk \/ ConnectStubErr

Handles == (\E s \in StartPool, e \in EndPool : RangeNew(s, e)) \/ RangeDrop

Calls ==
    \/ \E v \in ValuePool : PutCall(v)
    \/ PutReturn
    \/ GetCall
    \/ GetReturn
    \/ DeleteCall
    \/ DeleteReturn

Store ==
    \/ ServePut
    \/ ServeRange
    \/ ServeDeleteRange
    \/ \E w \in OtherWrites : OtherPut(w[1], w[2])

Watch ==
    \/ \E k \in WatchPool : WatchCall(k)
    \/ PollRequestStream
    \/ ServeWatchCreate
    \/ WatchReturn
    \/ Message

Failures == RpcFail \/ StreamFail \/ StreamEnd \/ SubDrop

\* The key-value side: connect, the Range handle and its calls, the store.
Next == Connect \/ Handles \/ Calls \/ Store \/ RpcFail

Spec == Init /\ [][Next]_vars

\* The watch side: connect, the subscription, and the puts that feed it.
WatchHandles == \E s \in WatchPool : RangeNew(s, None)

\* Other clients' writes to the watched key, and one to a key not watched.
WatchOtherWrites ==
    {w \in OtherWrites : into_bytes(T_a) = w[1] \/ into_bytes(T_e) = w[1]}

WatchWrites ==
    \/ \E v \in ValuePool : PutCall(v)
    \/ PutReturn
    \/ ServePut
    \/ \E w \in WatchOtherWrites : OtherPut(w[1], w[2])

WatchNext ==
    Connect \/ WatchHandles \/ WatchWrites \/ Watch \/ Failures \/ MessageClosed

WatchSpec == Init /\ [][WatchNext]_vars

\* The runs in which the connection of the subscription does not fail, the
\* store does not close the stream, and the consumer keeps polling: the
\* task that holds the stream loops on message().await (lib.rs:252-258), so
\* a batch that stays pending is eventually taken.
LiveNext == Connect \/ WatchHandles \/ WatchWrites \/ Watch \/ RpcFail

LiveSpec == Init /\ [][LiveNext]_vars /\ WF_vars(Message)

\* The Session side: every handle and every call of the client with the
\* answers and failures of its RPCs, and the drop of the Session.
ClusterCalls ==
    \/ ClusterNew
    \/ ClusterDrop
    \/ MembersCall
    \/ \E ms \in MemberLists : ServeMemberList(ms)
    \/ MembersReturn

WatchOpen ==
    \/ \E k \in WatchPool : WatchCall(k)
    \/ PollRequestStream
    \/ ServeWatchCreate
    \/ WatchReturn
    \/ StreamFail

SessionNext ==
    \/ Connect
    \/ Handles
    \/ Calls
    \/ ServePut
    \/ ServeRange
    \/ ServeDeleteRange
    \/ RpcFail
    \/ ClusterCalls
    \/ WatchOpen
    \/ SessionDrop

SessionSpec == Init /\ [][SessionNext]_vars

\* ================================================================ claims

\* The caller's last put is acknowledged and its key was not written since.
PutStands == lastPut.set /\ lastPut.acked /\ lastPut.clean

\* The caller's last delete is acknowledged and nothing was written since.
DeleteStands == lastDel.set /\ lastDel.acked /\ lastDel.clean

\* C1 (round trip): when a put of v through a Range whose start is k has
\* returned Ok and k was not written since, a get on the exact-key Range for
\* k (no end key) that returns Ok returns the mapping {k: v}: one entry for
\* k with the text v, and no other key.
C1_RoundTrip ==
    (/\ result.op = "get" /\ result.ok /\ result.end = None
     /\ PutStands /\ lastPut.key = result.start)
    => result.map = {<<lastPut.key, lastPut.value>>}

\* C1's case: a get after an acknowledged put of the two-byte text "é" to
\* the same key, which the store held with another value or not at all.
C1_Witness ==
    /\ result.op = "get" /\ result.ok /\ result.end = None
    /\ PutStands /\ lastPut.key = result.start
    /\ lastPut.value = T_e
    /\ result.map = {<<result.start, T_e>>}

\* The mapping of the records of the keys ks of the store contents st.
MapOf(st, ks) == {<<from_utf8(k), from_utf8(st[k])>> : k \in ks}

\* The stored keys k with start <= k < end.
Interval(st, start, end) ==
    {k \in DOMAIN st : /\ BytesLeq(into_bytes(start), k)
                       /\ BytesLess(k, into_bytes(end))}

\* The stored key start, if there is one.
Single(st, start) == {k \in DOMAIN st : k = into_bytes(start)}

\* C2 (range semantics), as claimed: a get that returns Ok returns, with an
\* end key bound, exactly the stored keys k with start <= k < end, each with
\* its value at the time of the read, and with no end key bound, the entry
\* of start if there is one and nothing else.
C2_RangeSemantics ==
    (result.op = "get" /\ result.ok)
    => result.map =
           MapOf(result.snap,
                 IF result.end.some
                 THEN Interval(result.snap, result.start, result.end.val)
                 ELSE Single(result.snap, result.start))

\* C2, amended: a get that returns Ok returns, with a non-empty end key
\* bound, exactly the stored keys k with start <= k < end, each with its
\* value at the time of the read; with no end key bound, or with the empty
\* text bound as end key, the entry of start if there is one and nothing
\* else.
C2_RangeSemanticsNonEmptyEnd ==
    (result.op = "get" /\ result.ok)
    => result.map =
           MapOf(result.snap,
                 IF result.end.some /\ result.end.val # T_empty
                 THEN Interval(result.snap, result.start, result.end.val)
                 ELSE Single(result.snap, result.start))

\* C2's case: a get of [a, é) on a store that holds "a", "aa" and "é"
\* returns the first two and not the third.
C2_Witness ==
    /\ result.op = "get" /\ result.ok
    /\ result.start = T_a /\ result.end = Some(T_e)
    /\ DOMAIN result.snap = {into_bytes(T_a), into_bytes(T_aa), into_bytes(T_e)}
    /\ {p[1] : p \in result.map} = {T_a, T_aa}

\* C3 (idempotent delete): after a delete that returned Ok, with nothing
\* written since, a get on a Range with the same start and end that returns
\* Ok returns the empty mapping; and a delete that repeats it on the same,
\* now empty, scope leaves the store as it was and returns Ok unless the
\* RPC itself failed (deleting nothing is no error).
C3_IdempotentDelete ==
    /\ (/\ result.op = "get" /\ result.ok /\ DeleteStands
        /\ result.start = lastDel.start /\ result.end = lastDel.end)
       => result.map = {}
    /\ (result.op = "delete" /\ result.again)
       => (result.after = result.snap /\ (result.ok <=> ~result.fault))

\* C3's case: the get after a delete of [a, é) that removed "a" and "aa"
\* and left "é" in the store.
C3_Witness ==
    /\ result.op = "get" /\ result.ok /\ DeleteStands
    /\ result.start = lastDel.start /\ result.end = lastDel.end
    /\ result.end = Some(T_e)
    /\ DOMAIN store = {into_bytes(T_e)}

\* C8 (connect is all-or-nothing): a Session exists only with all six stubs
\* made, each on a channel that was opened; after a stub's connect failed,
\* connect has returned an error and there is no Session; and the caller
\* gets past connect only with a Session.
C8_ConnectAllOrNothing ==
    /\ session = "live" =>
           /\ Len(stubs) = Len(ServiceNames)
           /\ \A i \in 1..Len(stubs) : stubs[i] \in 1..dials
    /\ pc = "connect_failed" =>
           (session = "none" /\ result.op = "connect" /\ ~result.ok)
    /\ pc \notin {"connecting", "connect_failed"} => session = "live"

\* C8's case: the sixth stub's connect failed after five had succeeded.
C8_Witness ==
    pc = "connect_failed" /\ dials = Len(ServiceNames) - 1 /\ session = "none"

\* C9 (one channel), as claimed: a successful connect has opened exactly
\* one network connection, and the six stubs share it.
C9_OneChannel ==
    session = "live" =>
        /\ dials = 1
        /\ \A i, j \in 1..Len(stubs) : stubs[i] = stubs[j]

\* C10 (decode error), as claimed: a get whose response holds bytes that are
\* no valid text returns an error to its caller; the calling task is never
\* aborted by it.
C10_DecodeErrorReturned == pc # "panicked"

IsPrefix(p, q) == Len(p) <= Len(q) /\ SubSeq(q, 1, Len(p)) = p

\* The change events of a sequence of batches, in order.
RECURSIVE EventsOf(_)
EventsOf(batches) ==
    IF batches = <<>> THEN <<>>
    ELSE Head(batches).events \o EventsOf(Tail(batches))

\* A batch handed to the consumer holds a change of the subscribed key.
SawChange ==
    \E i \in 1..Len(consumed) :
        \E j \in 1..Len(consumed[i].events) :
            consumed[i].events[j].key = into_bytes(sub.key)

\* A put to the subscribed key, called while the subscription was open, has
\* returned Ok.
PutAfterWatch == result.op = "put" /\ result.ok /\ result.watched

\* C4 (watch liveness): once a put to key k, issued through a Range of the
\* same Session after watch(k) returned the open subscription, has returned
\* Ok, the subscription eventually hands its consumer a batch holding a
\* change of k, in the runs where the connection holds and the consumer
\* keeps polling.
C4_WatchLiveness == PutAfterWatch ~> SawChange

\* C4's case: the put has returned Ok and its change has reached the consumer.
C4_Witness == PutAfterWatch /\ SawChange /\ sub.st = "open"

\* C5 (watch ordering): the batches handed to the consumer are, in order, a
\* prefix of the batches the store sent; while the subscription is not
\* closed, what was handed over followed by what is pending is all that was
\* sent (nothing dropped, doubled or reordered); and the store's events are
\* the writes to the subscribed key in the order they were made.
C5_WatchOrder ==
    /\ IsPrefix(consumed, delivered)
    /\ sub.st \in {"calling", "open"} => consumed \o inbound.msgs = delivered
    /\ EventsOf(delivered) = writes

\* C5's case: the consumer has been handed two changes of the key.
C5_Witness == Len(EventsOf(consumed)) >= 2 /\ EventsOf(consumed) = writes

\* C6 (one create request): the request stream of a watch call sends
\* nothing before it is polled, and from its first poll on it has sent
\* exactly one request, the create request for the key given, with no range
\* end and no start revision; it never sends a second one.
C6_OneCreateRequest ==
    /\ Len(outbound) <= 1
    /\ reqStream \in {"none", "unpolled"} => outbound = <<>>
    /\ reqStream \in {"yielded", "ended"} =>
           outbound = <<[create |-> TRUE, key |-> into_bytes(sub.key),
                         range_end |-> <<>>, start_revision |-> 0]>>

\* C6's case: the subscription is open, the transport has polled the
\* request stream past its request, and one request has been sent.
C6_Witness == sub.st = "open" /\ reqStream = "ended" /\ Len(outbound) = 1

\* C7, as claimed: while the subscription is open the request stream is
\* not ended (the client does not close the outbound half).
C7_StaysOpen == sub.st = "open" => reqStream # "ended"

\* C7, amended: once the request stream has yielded its create request, the
\* next poll of it ends it and sends nothing more: the client closes the
\* outbound half of the call right after the request, whatever the state of
\* the subscription.
C7_EndsAfterRequest ==
    [][(reqStream = "yielded" /\ (reqStream' # reqStream \/ outbound' # outbound))
         => (reqStream' = "ended" /\ outbound' = outbound)]_vars

\* C7's case: the subscription is open and the request stream has ended.
C7_Witness == sub.st = "open" /\ reqStream = "ended" /\ inbound.term = "open"

\* C11 (session isolation): the Session takes no exclusive lock, so two Range
\* handles of one Session coexist and have operations in flight at the same
\* time: while the caller holds one Range handle, idle or with a call in
\* flight, a second one can be made from the same Session.
C11_NoExclusiveLock ==
    (session = "live" /\ range.live)
        => ENABLED (\E s \in StartPool, e \in EndPool : RangeNew(s, e))

\* C12 (ownership): whenever a Range handle, a Cluster handle or a Watch
\* subscription is live, the Session it was made from is live: none of them
\* is left usable once the Session has been dropped.
C12_HandlesWithinSession ==
    (range.live \/ cluster \/ sub.st = "open") => session = "live"

\* How far a subscription is in its life: not yet open, open, closed.
SubRank(st) ==
    CASE st \in {"unopened", "calling"} -> 0
      [] st = "open" -> 1
      [] OTHER -> 2

\* C13 (watch lifecycle): a subscription moves only Unopened -> Open ->
\* Closed: no step takes it back, and it becomes Open only out of the watch()
\* call that opens it.  When the failure of the inbound stream is what the
\* stream has to report next (no batch is pending before it), the poll that
\* meets it returns that error and leaves the subscription Closed.  Once
\* Closed it stays Closed and no poll hands the consumer a further batch.
C13_Lifecycle ==
    [][ /\ SubRank(sub'.st) >= SubRank(sub.st)
        /\ (sub'.st = "open" /\ sub.st # "open" => sub.st = "calling")
        /\ (sub.st = "open" /\ inbound.msgs = <<>> /\ inbound.term = "error"
                /\ sub'.last # sub.last
              => sub'.st = "closed" /\ sub'.last = "err")
        /\ (sub.st = "closed" => sub'.st = "closed" /\ consumed' = consumed)
      ]_vars

\* An open subscription whose batches were consumed met the error of its
\* stream, was closed by it, and was polled again.
C13_Witness ==
    /\ sub.st = "closed" /\ sub.last = "eos"
    /\ inbound.term = "error"
    /\ Len(consumed) >= 2

\* C14 (handle consumption): delete() consumes the Range handle, so from the
\* call on, and after it returned success or error alike, the caller holds
\* no handle; put() and get() do not consume it: while one is in flight and
\* after it returned, the caller still holds the same handle.
C14_DeleteConsumes ==
    /\ (pc = "delete" \/ result.op = "delete") => ~range.live
    /\ pc \in {"put", "get"}
          => range.live /\ range.start = rpc.start /\ range.end = rpc.end
    /\ result.op \in {"put", "get"}
          => range.live /\ range.start = result.start /\ range.end = result.end

\* A delete, issued after an earlier call, returned an error and the
\* handle is gone all the same.
C14_Witness ==
    /\ result.op = "delete" /\ ~result.ok
    /\ ~range.live
    /\ nops = MaxOps

\* C15 (no retry, no swallowing): a call of put, get, delete, members or
\* watch makes one RPC attempt: a request goes on the wire only in the step
\* that starts a call, that step sends one, and no request is sent while a
\* call is under way.  An attempt that failed makes the call return, and what
\* it returns is the error, never success.  Once the Session is made no
\* channel is dialled again.
C15_OneAttempt ==
    [][ /\ (rpc'.st = "sent" /\ rpc.st # "sent" => pc = "idle" /\ pc' # "idle")
        /\ (pc = "idle" /\ pc' \in {"put", "get", "delete", "members"}
              => rpc'.st = "sent")
        /\ (reqStream' = "unpolled" /\ reqStream # "unpolled"
              => pc = "idle" /\ pc' = "watch")
        /\ (rpc.st = "err" /\ rpc' # rpc
              => rpc'.st = "none" /\ pc' = "idle" /\ ~result'.ok)
        /\ (result'.op \in {"put", "get", "delete", "members", "watch"}
                /\ result'.fault
              => ~result'.ok)
        /\ (session = "live" => dials' = dials)
      ]_vars

\* A put whose attempt failed returned the error, on the Session's six
\* channels, with no further request out.
C15_Witness ==
    /\ result.op = "put" /\ result.fault /\ ~result.ok
    /\ rpc.st = "none"
    /\ dials = Len(ServiceNames)

\* C16 (all-or-nothing writes), as stated: whenever put() or delete() returns
\* an error the call has left the store's contents as they were, and
\* whenever put() returns success the store holds the written value for the
\* start key.
C16_AllOrNothing ==
    [][ /\ (pc \in {"put", "delete"} /\ pc' = "idle" /\ ~result'.ok
              => rpc.after = rpc.snap)
        /\ (pc = "put" /\ pc' = "idle" /\ result'.ok
              => /\ into_bytes(rpc.start) \in DOMAIN store'
                 /\ store'[into_bytes(rpc.start)] = into_bytes(rpc.arg))
      ]_vars

\* C16, amended: whenever put() or delete() returns an error, the store has
\* applied the call's write either not at all or as a whole (the error can be
\* the loss of the answer to a write the store did apply); whenever put()
\* returns success the store applied it: the start key held the written
\* value when the store served the put.
C16_WholeOrNone ==
    /\ result.op = "put" /\ ~result.ok
          => \/ result.after = result.snap
             \/ result.after = StorePut(result.snap, into_bytes(result.start),
                                        into_bytes(result.arg))
    /\ result.op = "delete" /\ ~result.ok
          => \/ result.after = result.snap
             \/ result.after =
                  StoreDelete(result.snap,
                              ScopeKeys(result.snap, into_bytes(result.start),
                                        RangeEnd(result.end)))
    /\ result.op = "put" /\ result.ok
          => /\ into_bytes(result.start) \in DOMAIN result.after
             /\ result.after[into_bytes(result.start)] = into_bytes(result.arg)

\* A put returned an error although the store had applied its write.
C16_Witness ==
    /\ result.op = "put" /\ ~result.ok
    /\ result.after # result.snap
    /\ result.after[into_bytes(result.start)] = into_bytes(result.arg)

\* C17 (member listing): a members() that returns success returns exactly
\* the member list of the server's response, the same members in the same
\* order; for a cluster of one node that is a list of length 1.
C17_MembersAsServed ==
    result.op = "members" /\ result.ok
        => /\ result.members = result.sent
           /\ (Len(result.sent) = 1 => Len(result.members) = 1)

\* members() returned a list of three members that is not in id order.
C17_Witness ==
    /\ result.op = "members" /\ result.ok
    /\ result.sent = <<3, 1, 2>>
    /\ result.members = <<3, 1, 2>>

\* The keys the store answers the get() of a Range equal to r with, when the
\* store holds st.
GetScope(st, r) ==
    ScopeKeys(st, RangeRequest(r).key, RangeRequest(r).range_end)

\* C18 (scope of delete): delete() and get() on equal Ranges address the same
\* scope: a delete() that returns success removed exactly the keys a get()
\* on an equal Range would have been answered with just before, and left
\* every other key with its value; this holds for every end key, those equal
\* to or less than start included.
C18_DeleteScope ==
    result.op = "delete" /\ result.ok
        => LET r == [live |-> TRUE, start |-> result.start, end |-> result.end]
           IN  /\ DOMAIN result.snap \ DOMAIN result.after = GetScope(result.snap, r)
               /\ DOMAIN result.after \subseteq DOMAIN result.snap
               /\ \A k \in DOMAIN result.after : result.after[k] = result.snap[k]

\* A delete of ["a", "é") removed the two keys in it and left "é".
C18_Witness ==
    /\ result.op = "delete" /\ result.ok
    /\ result.start = T_a /\ result.end = Some(T_e)
    /\ DOMAIN result.snap \ DOMAIN result.after = {into_bytes(T_a), into_bytes(T_aa)}
    /\ into_bytes(T_e) \in DOMAIN result.after

\* C19 (scope of put): put() writes the start key only, whether or not an
\* end key is bound: a put() that returns success set start to the value
\* and left every other key of the store as it was, none added, none
\* removed, none changed.
C19_PutWritesStartOnly ==
    result.op = "put" /\ result.ok
        => LET k == into_bytes(result.start)
           IN  /\ DOMAIN result.after = DOMAIN result.snap \cup {k}
               /\ result.after[k] = into_bytes(result.arg)
               /\ \A j \in DOMAIN result.snap \ {k} : result.after[j] = result.snap[j]

\* A put through a Range of ["a", "é") wrote "a" and left "aa", a key
\* inside the interval, and "é" as they were.
C19_Witness ==
    /\ result.op = "put" /\ result.ok
    /\ result.start = T_a /\ result.end = Some(T_e)
    /\ into_bytes(T_aa) \in DOMAIN result.snap
    /\ result.after[into_bytes(T_a)] # result.snap[into_bytes(T_a)]
    /\ result.after[into_bytes(T_aa)] = result.snap[into_bytes(T_aa)]

====
